---- MODULE Spec2Model ----
(***************************************************************************)
(* Sandboxed external-execution layer of Pc-MCP: the path guard and the    *)
(* file operations of FilesystemService, the command guard and the guarded *)
(* execution of TerminalService, the process runners of utils/command, and *)
(* the two external steps of SlicerService.slice_model.                    *)
(*                                                                         *)
(* A canonical path is a sequence of names (<<>> is "/").  A raw path, as  *)
(* a caller passes it, is a record [anchor, comps]: anchor "/" for an      *)
(* absolute path, "~" for a path under the home shorthand, "" for a path   *)
(* relative to the working directory of the server; comps may hold "..".   *)
(* The filesystem is a function from the canonical paths that exist to     *)
(* nodes [kind, target, data]: a directory, a regular file with its bytes, *)
(* or a symbolic link with its absolute target.                            *)
(***************************************************************************)
EXTENDS Integers, Sequences, FiniteSets, TLC

VARIABLES fs, last, env, calls

vars == <<fs, last, env, calls>>

(***************************************************************************)
(* Bounds of the model.                                                    *)
(***************************************************************************)
MaxSymlinkHops == 4

\* settings.max_output_length, scaled down from 10000
MaxOutputLength == 2

(***************************************************************************)
(* The host: home, working directory of the server, workspace, and one     *)
(* directory with one file outside every allowed root.                     *)
(***************************************************************************)
HomeDir == <<"h">>

CwdDir == <<"c">>

WorkspaceDir == <<"c", "ws">>

OutsideDir == <<"e">>

OutsideFile == <<"e", "pw">>

Front(s) == SubSeq(s, 1, Len(s) - 1)

Last(s) == s[Len(s)]

IsPrefix(p, q) == Len(p) <= Len(q) /\ SubSeq(q, 1, Len(p)) = p

DirNode == [kind |-> "dir", target |-> <<>>, data |-> <<>>]

FileNode(bytes) == [kind |-> "file", target |-> <<>>, data |-> bytes]

LinkNode(t) == [kind |-> "link", target |-> t, data |-> <<>>]

Exists(f, p) == p \in DOMAIN f

IsKind(f, p, k) == p \in DOMAIN f /\ f[p].kind = k

SymlinkLoop == <<"*loop*">>

(***************************************************************************)
(* Path.resolve() in non-strict mode: components are walked left to right  *)
(* on the resolved prefix, ".." pops the resolved prefix, a symbolic link  *)
(* is replaced by its target, a component that does not exist is kept.     *)
(***************************************************************************)
RECURSIVE Realpath(_, _, _, _)
Realpath(f, cur, rest, fuel) ==
  IF rest = <<>> THEN cur
  ELSE LET t == Head(rest)
           r == Tail(rest)
       IN IF t = "." THEN Realpath(f, cur, r, fuel)
          ELSE IF t = ".."
            THEN Realpath(f, IF cur = <<>> THEN <<>> ELSE Front(cur), r, fuel)
          ELSE IF IsKind(f, Append(cur, t), "link")
            THEN IF fuel = 0 THEN SymlinkLoop
                 ELSE Realpath(f, <<>>, f[Append(cur, t)].target \o r, fuel - 1)
          ELSE Realpath(f, Append(cur, t), r, fuel)

\* Path(raw).expanduser(): a leading "~" becomes the home directory
ExpandUser(raw) ==
  IF raw.anchor = "~" THEN [anchor |-> "/", comps |-> HomeDir \o raw.comps]
  ELSE raw

\* the components of an expanded path counted from "/": a relative path
\* is taken from the working directory of the server
AbsComps(path) ==
  IF path.anchor = "/" THEN path.comps ELSE CwdDir \o path.comps

Resolve(f, path) == Realpath(f, <<>>, AbsComps(path), MaxSymlinkHops)

ResolveDir(f, dir) == Realpath(f, <<>>, dir, MaxSymlinkHops)

\* the directories the services were constructed with
allowed_base_dirs == <<WorkspaceDir, HomeDir, CwdDir>>

\* the canonical roots the guard compares against (resolved on every call)
AllowedRoots(f) ==
  {ResolveDir(f, allowed_base_dirs[i]) : i \in 1..Len(allowed_base_dirs)}

\* the guard as it would be with absolute() in place of resolve(): symbolic
\* links and ".." are not resolved before the comparison
IsPathAllowedLexical(f, path) ==
  \E root \in AllowedRoots(f) : IsPrefix(root, AbsComps(path))

\* FilesystemService._is_path_allowed: the resolved path lies under one
\* resolved allowed directory; an exception of resolve() is a refusal
IsPathAllowed(f, path) ==
  LET resolved_path == Resolve(f, path)
  IN /\ resolved_path # SymlinkLoop
     /\ \E root \in AllowedRoots(f) :
          root # SymlinkLoop /\ IsPrefix(root, resolved_path)

\* the guard of the terminal service with absolute() in place of resolve()
TerminalIsPathAllowedLexical(f, path) ==
  \E root \in AllowedRoots(f) : IsPrefix(root, AbsComps(path))

\* TerminalService._is_path_allowed, a copy of the guard of FilesystemService
TerminalIsPathAllowed(f, path) ==
  LET resolved_path == Resolve(f, path)
  IN /\ resolved_path # SymlinkLoop
     /\ \E root \in AllowedRoots(f) :
          root # SymlinkLoop /\ IsPrefix(root, resolved_path)

(***************************************************************************)
(* The path walk of the operating system, as open/stat/mkdir/unlink do it: *)
(* every component but the last must be an existing directory, symbolic    *)
(* links are followed (the last one only when follow is set).  The answer  *)
(* is the canonical place of the last component, which need not exist.     *)
(***************************************************************************)
RECURSIVE Walk(_, _, _, _, _)
Walk(f, cur, rest, follow, fuel) ==
  IF rest = <<>> THEN [ok |-> TRUE, err |-> "", path |-> cur]
  ELSE IF ~Exists(f, cur)
    THEN [ok |-> FALSE, err |-> "FileNotFoundError", path |-> cur]
  ELSE IF f[cur].kind # "dir"
    THEN [ok |-> FALSE, err |-> "NotADirectoryError", path |-> cur]
  ELSE LET t == Head(rest)
           r == Tail(rest)
       IN IF t = "." THEN Walk(f, cur, r, follow, fuel)
          ELSE IF t = ".."
            THEN Walk(f, IF cur = <<>> THEN <<>> ELSE Front(cur), r, follow, fuel)
          ELSE IF IsKind(f, Append(cur, t), "link") /\ (r # <<>> \/ follow)
            THEN IF fuel = 0
                 THEN [ok |-> FALSE, err |-> "OSError", path |-> cur]
                 ELSE Walk(f, <<>>, f[Append(cur, t)].target \o r, follow, fuel - 1)
          ELSE Walk(f, Append(cur, t), r, follow, fuel)

Stat(f, path) == Walk(f, <<>>, AbsComps(path), TRUE, MaxSymlinkHops)

Lstat(f, path) == Walk(f, <<>>, AbsComps(path), FALSE, MaxSymlinkHops)

\* Path.exists(), is_file(), is_dir() follow links; is_symlink() does not
PathExists(f, path) == Stat(f, path).ok /\ Exists(f, Stat(f, path).path)

PathIsFile(f, path) == Stat(f, path).ok /\ IsKind(f, Stat(f, path).path, "file")

PathIsDir(f, path) == Stat(f, path).ok /\ IsKind(f, Stat(f, path).path, "dir")

PathIsSymlink(f, path) == Lstat(f, path).ok /\ IsKind(f, Lstat(f, path).path, "link")

\* Path.parent is lexical
PathParent(path) ==
  IF path.comps = <<>> THEN path
  ELSE [anchor |-> path.anchor, comps |-> Front(path.comps)]

PathJoin(path, name) == [anchor |-> path.anchor, comps |-> Append(path.comps, name)]

Put(f, p, node) == [q \in DOMAIN f \cup {p} |-> IF q = p THEN node ELSE f[q]]

\* the removal as it would be if only the entry itself went away
RemoveEntryOnly(f, p) == [q \in DOMAIN f \ {p} |-> f[q]]

Remove(f, p) == [q \in {x \in DOMAIN f : ~IsPrefix(p, x)} |-> f[q]]

Children(f, d) == {p \in DOMAIN f : Len(p) = Len(d) + 1 /\ IsPrefix(d, p)}

\* os.mkdir: the new filesystem and the exception raised ("" for none)
OsMkdir(f, path) ==
  LET w == Lstat(f, path)
  IN IF ~w.ok THEN [fs |-> f, err |-> w.err]
     ELSE IF Exists(f, w.path) THEN [fs |-> f, err |-> "FileExistsError"]
     ELSE [fs |-> Put(f, w.path, DirNode), err |-> ""]

\* Path.mkdir(parents, exist_ok)
RECURSIVE PathMkdir(_, _, _, _)
PathMkdir(f, path, parents, exist_ok) ==
  LET m == OsMkdir(f, path)
  IN IF m.err = "" THEN m
     ELSE IF m.err = "FileNotFoundError"
       THEN IF ~parents \/ PathParent(path) = path THEN m
            ELSE LET up == PathMkdir(f, PathParent(path), TRUE, TRUE)
                 IN IF up.err # "" THEN up
                    ELSE PathMkdir(up.fs, path, FALSE, exist_ok)
     ELSE IF ~exist_ok \/ ~PathIsDir(f, path) THEN m
     ELSE [fs |-> f, err |-> ""]

(***************************************************************************)
(* Text and bytes.  A text is a sequence of characters, a file holds a     *)
(* sequence of bytes.  The characters of the model: "a", "b", CR, LF, the  *)
(* two-byte E_ACUTE (U+00E9) and REPL (U+FFFD, the replacement character). *)
(***************************************************************************)
Utf8Bytes(ch) ==
  CASE ch = "a" -> <<97>>
    [] ch = "b" -> <<98>>
    [] ch = "CR" -> <<13>>
    [] ch = "LF" -> <<10>>
    [] ch = "E_ACUTE" -> <<195, 169>>
    [] ch = "REPL" -> <<239, 191, 189>>

AsciiChar(b) ==
  CASE b = 97 -> "a"
    [] b = 98 -> "b"
    [] b = 13 -> "CR"
    [] b = 10 -> "LF"

KnownEncodings == {"utf-8", "ascii"}

\* str.encode: [ok, bytes]
RECURSIVE Encode(_, _)
Encode(text, enc) ==
  IF text = <<>> THEN [ok |-> TRUE, bytes |-> <<>>]
  ELSE LET bs == Utf8Bytes(Head(text))
           more == Encode(Tail(text), enc)
       IN IF enc = "ascii" /\ Len(bs) > 1 THEN [ok |-> FALSE, bytes |-> <<>>]
          ELSE [ok |-> more.ok, bytes |-> bs \o more.bytes]

\* bytes.decode: with errors = "strict" an invalid byte fails the decoding,
\* with errors = "replace" each invalid byte becomes REPL
RECURSIVE Decode(_, _, _)
Decode(bytes, enc, errors) ==
  IF bytes = <<>> THEN [ok |-> TRUE, text |-> <<>>]
  ELSE LET b == Head(bytes)
           two == enc = "utf-8" /\ b = 195 /\ Len(bytes) >= 2 /\ bytes[2] = 169
           valid == b < 128 \/ two
           ch == IF two THEN "E_ACUTE" ELSE IF b < 128 THEN AsciiChar(b) ELSE "REPL"
           more == Decode(IF two THEN Tail(Tail(bytes)) ELSE Tail(bytes), enc, errors)
       IN IF ~valid /\ errors = "strict" THEN [ok |-> FALSE, text |-> <<>>]
          ELSE [ok |-> more.ok, text |-> <<ch>> \o more.text]

\* reading in text mode with newline=None: CR LF and a lone CR become LF
RECURSIVE UniversalNewlines(_)
UniversalNewlines(text) ==
  IF text = <<>> THEN <<>>
  ELSE IF Head(text) = "CR"
    THEN IF Len(text) >= 2 /\ text[2] = "LF"
         THEN <<"LF">> \o UniversalNewlines(Tail(Tail(text)))
         ELSE <<"LF">> \o UniversalNewlines(Tail(text))
  ELSE <<Head(text)>> \o UniversalNewlines(Tail(text))

\* writing in text mode with newline=None on POSIX: LF is written as LF
WriteNewlines(text) == text

(***************************************************************************)
(* The response of an operation, kept in last together with the request.   *)
(***************************************************************************)
NoPath == [anchor |-> "", comps |-> <<>>]

Blank ==
  [op |-> "none", path |-> NoPath, encoding |-> "", arg |-> <<>>, flag |-> FALSE,
   flag2 |-> FALSE,
   error |-> "", success |-> FALSE, content |-> <<>>, hex |-> <<>>, size |-> 0,
   exists |-> FALSE, type |-> "", is_symlink |-> FALSE, entries |-> {},
   count |-> 0, resolved |-> <<>>, environment_variables |-> <<>>, pc |-> "done"]

Response(fields) == fields @@ Blank

AccessDenied == "Access denied"

DirStSize == 4096

(***************************************************************************)
(* FilesystemService.  Each operation is a function of the filesystem and  *)
(* the request; the ones that write answer [fs, resp].                     *)
(***************************************************************************)
read_file(f, file_path, encoding) ==
  LET path == ExpandUser(file_path)
      node == f[Stat(f, path).path]
      decoded == Decode(node.data, encoding, "strict")
  IN IF ~IsPathAllowed(f, path) THEN Response([error |-> AccessDenied])
     ELSE IF ~PathExists(f, path) THEN Response([error |-> "File not found"])
     ELSE IF ~PathIsFile(f, path) THEN Response([error |-> "Not a file"])
     ELSE IF encoding = "binary"
       THEN Response([resolved |-> Resolve(f, path),
                      size |-> Len(node.data), encoding |-> "binary",
                      hex |-> node.data])
     ELSE IF encoding \notin KnownEncodings
       THEN Response([error |-> "Failed to read file"])
     ELSE IF ~decoded.ok THEN Response([error |-> "Encoding error"])
     ELSE Response([resolved |-> Resolve(f, path),
                    size |-> Len(node.data), encoding |-> encoding,
                    content |-> UniversalNewlines(decoded.text)])

\* write_file after its guard: the parents, the open, the write
write_file_primitives(f, file_path, content, encoding, create_dirs) ==
  LET path == ExpandUser(file_path)
      failed == Response([error |-> "Failed to write file"])
      made == IF create_dirs /\ ~PathExists(f, PathParent(path))
              THEN PathMkdir(f, PathParent(path), TRUE, TRUE)
              ELSE [fs |-> f, err |-> ""]
      w == Stat(made.fs, path)
      opened == Put(made.fs, w.path, FileNode(<<>>))
      encoded == Encode(WriteNewlines(content), encoding)
      written == Put(opened, w.path, FileNode(encoded.bytes))
  IN IF made.err # "" THEN [fs |-> made.fs, resp |-> failed]
     ELSE IF ~w.ok \/ IsKind(made.fs, w.path, "dir")
       THEN [fs |-> made.fs, resp |-> failed]
     ELSE IF encoding \notin KnownEncodings \/ ~encoded.ok
       THEN [fs |-> opened, resp |-> failed]
     ELSE [fs |-> written,
           resp |-> Response([success |-> TRUE, size |-> Len(content),
                              resolved |-> Resolve(written, path)])]

write_file(f, file_path, content, encoding, create_dirs) ==
  IF ~IsPathAllowed(f, ExpandUser(file_path))
  THEN [fs |-> f, resp |-> Response([error |-> AccessDenied])]
  ELSE write_file_primitives(f, file_path, content, encoding, create_dirs)

HiddenName(name) == name \in {".g"}

\* one entry of a listing; item is the unresolved path of the entry
ListEntry(f, path, item) ==
  [name |-> Last(item.comps),
   path |-> SubSeq(item.comps, Len(path.comps) + 1, Len(item.comps)),
   absolute_path |-> Resolve(f, item),
   type |-> IF PathIsDir(f, item) THEN "directory" ELSE "file",
   size |-> IF PathIsFile(f, item) THEN Len(f[Stat(f, item).path].data) ELSE 0]

list_directory(f, dir_path, show_hidden, recursive) ==
  LET path == ExpandUser(dir_path)
      base == Stat(f, path).path
      found == IF recursive
               THEN {p \in DOMAIN f : IsPrefix(base, p) /\ p # base}
               ELSE Children(f, base)
      items == {[anchor |-> path.anchor,
                 comps |-> path.comps \o SubSeq(p, Len(base) + 1, Len(p))] :
                  p \in found}
      shown == {item \in items :
                  /\ show_hidden \/ ~HiddenName(Last(item.comps))
                  /\ PathExists(f, item)}
      entries == {ListEntry(f, path, item) : item \in shown}
  IN IF ~IsPathAllowed(f, path) THEN Response([error |-> AccessDenied])
     ELSE IF ~PathExists(f, path) THEN Response([error |-> "Directory not found"])
     ELSE IF ~PathIsDir(f, path) THEN Response([error |-> "Not a directory"])
     ELSE Response([resolved |-> Resolve(f, path),
                    count |-> Cardinality(entries), entries |-> entries])

\* create_directory as it would be without the test for an existing target
\* and with exist_ok=False
create_directoryWithoutExistsTest(f, dir_path, parents) ==
  LET path == ExpandUser(dir_path)
      made == PathMkdir(f, path, parents, FALSE)
  IN IF ~IsPathAllowed(f, path)
       THEN [fs |-> f, resp |-> Response([error |-> AccessDenied])]
     ELSE IF made.err # ""
       THEN [fs |-> made.fs,
             resp |-> Response([error |-> "Failed to create directory"])]
     ELSE [fs |-> made.fs,
           resp |-> Response([success |-> TRUE, resolved |-> Resolve(made.fs, path)])]

create_directory(f, dir_path, parents) ==
  LET path == ExpandUser(dir_path)
      made == PathMkdir(f, path, parents, TRUE)
  IN IF ~IsPathAllowed(f, path)
       THEN [fs |-> f, resp |-> Response([error |-> AccessDenied])]
     ELSE IF PathExists(f, path)
       THEN IF PathIsDir(f, path)
            THEN [fs |-> f, resp |-> Response([success |-> TRUE,
                                               resolved |-> Resolve(f, path)])]
            ELSE [fs |-> f, resp |-> Response([error |-> "Path exists as file"])]
     ELSE IF made.err # ""
       THEN [fs |-> made.fs,
             resp |-> Response([error |-> "Failed to create directory"])]
     ELSE [fs |-> made.fs,
           resp |-> Response([success |-> TRUE, resolved |-> Resolve(made.fs, path)])]

\* delete_path after its guard: the tests of the path, then unlink, rmtree
\* or rmdir
delete_path_primitives(f, path_str, recursive) ==
  LET path == ExpandUser(path_str)
      w == Lstat(f, path)
      failed == [fs |-> f, resp |-> Response([error |-> "Failed to delete path"])]
      deleted == [fs |-> Remove(f, w.path), resp |-> Response([success |-> TRUE])]
  IN IF ~PathExists(f, path)
       THEN [fs |-> f, resp |-> Response([error |-> "Path not found"])]
     ELSE IF PathIsFile(f, path) THEN deleted
     ELSE IF IsKind(f, w.path, "link") \/ w.path = <<>> THEN failed
     ELSE IF recursive THEN deleted
     ELSE IF Children(f, w.path) # {}
       THEN [fs |-> f, resp |-> Response([error |-> "Directory not empty"])]
     ELSE deleted

delete_path(f, path_str, recursive) ==
  IF ~IsPathAllowed(f, ExpandUser(path_str))
  THEN [fs |-> f, resp |-> Response([error |-> AccessDenied])]
  ELSE delete_path_primitives(f, path_str, recursive)

get_path_info(f, path_str) ==
  LET path == ExpandUser(path_str)
      at == Stat(f, path).path
  IN IF ~IsPathAllowed(f, path) THEN Response([error |-> AccessDenied])
     ELSE IF ~PathExists(f, path) THEN Response([exists |-> FALSE])
     ELSE Response([exists |-> TRUE, resolved |-> Resolve(f, path),
                    type |-> IF PathIsDir(f, path) THEN "directory" ELSE "file",
                    size |-> IF f[at].kind = "file" THEN Len(f[at].data) ELSE DirStSize,
                    is_symlink |-> PathIsSymlink(f, path)])

(***************************************************************************)
(* TerminalService: the command guard.  A command line is a sequence of    *)
(* characters.                                                             *)
(***************************************************************************)
BLOCKED_COMMANDS ==
  {<<"s", "u", "d", "o">>, <<"s", "u">>, <<"d", "o", "a", "s">>,
   <<"p", "k", "e", "x", "e", "c">>, <<"c", "h", "m", "o", "d">>,
   <<"c", "h", "o", "w", "n">>, <<"c", "h", "g", "r", "p">>,
   <<"s", "y", "s", "t", "e", "m", "c", "t", "l">>,
   <<"s", "e", "r", "v", "i", "c", "e">>, <<"r", "e", "b", "o", "o", "t">>,
   <<"s", "h", "u", "t", "d", "o", "w", "n">>,
   <<"p", "o", "w", "e", "r", "o", "f", "f">>, <<"h", "a", "l", "t">>,
   <<"m", "k", "f", "s">>, <<"f", "d", "i", "s", "k">>,
   <<"p", "a", "r", "t", "e", "d">>, <<"g", "d", "i", "s", "k">>,
   <<"m", "o", "u", "n", "t">>, <<"u", "m", "o", "u", "n", "t">>,
   <<"i", "p", "t", "a", "b", "l", "e", "s">>, <<"u", "f", "w">>,
   <<"f", "i", "r", "e", "w", "a", "l", "l", "-", "c", "m", "d">>,
   <<"u", "s", "e", "r", "a", "d", "d">>,
   <<"u", "s", "e", "r", "m", "o", "d">>,
   <<"u", "s", "e", "r", "d", "e", "l">>,
   <<"g", "r", "o", "u", "p", "a", "d", "d">>,
   <<"g", "r", "o", "u", "p", "m", "o", "d">>,
   <<"g", "r", "o", "u", "p", "d", "e", "l">>,
   <<"p", "a", "s", "s", "w", "d">>}

dangerous_operators ==
  <<<<"|", "s", "u", "d", "o">>, <<"&", "&", "s", "u", "d", "o">>,
    <<";", "s", "u", "d", "o">>, <<"|", "s", "u">>, <<"&", "&", "s", "u">>,
    <<";", "s", "u">>>>

Whitespace == {" ", "\t", "\r", "\n"}

ShlexError == <<<<"*error*">>>>

\* shlex.split(command): POSIX rules, whitespace_split, no comments.
\* state is "ws" (between words), "word", "sq", "dq" (inside quotes) or
\* "esc" (after a backslash; back is the state to return to)
RECURSIVE ShlexRun(_, _, _, _, _, _)
ShlexRun(rest, state, back, token, quoted, tokens) ==
  IF rest = <<>>
  THEN IF state \in {"sq", "dq", "esc"} THEN ShlexError
       ELSE IF token # <<>> \/ quoted THEN Append(tokens, token)
       ELSE tokens
  ELSE LET c == Head(rest)
           r == Tail(rest)
       IN CASE state = "ws" ->
                 IF c \in Whitespace THEN ShlexRun(r, "ws", back, token, quoted, tokens)
                 ELSE IF c = "\\" THEN ShlexRun(r, "esc", "word", token, quoted, tokens)
                 ELSE IF c = "'" THEN ShlexRun(r, "sq", back, token, quoted, tokens)
                 ELSE IF c = "\"" THEN ShlexRun(r, "dq", back, token, quoted, tokens)
                 ELSE ShlexRun(r, "word", back, <<c>>, quoted, tokens)
            [] state = "word" ->
                 IF c \in Whitespace
                 THEN IF token # <<>> \/ quoted
                      THEN ShlexRun(r, "ws", back, <<>>, FALSE, Append(tokens, token))
                      ELSE ShlexRun(r, "ws", back, token, quoted, tokens)
                 ELSE IF c = "'" THEN ShlexRun(r, "sq", back, token, quoted, tokens)
                 ELSE IF c = "\"" THEN ShlexRun(r, "dq", back, token, quoted, tokens)
                 ELSE IF c = "\\" THEN ShlexRun(r, "esc", "word", token, quoted, tokens)
                 ELSE ShlexRun(r, "word", back, Append(token, c), quoted, tokens)
            [] state = "sq" ->
                 IF c = "'" THEN ShlexRun(r, "word", back, token, TRUE, tokens)
                 ELSE ShlexRun(r, "sq", back, Append(token, c), TRUE, tokens)
            [] state = "dq" ->
                 IF c = "\"" THEN ShlexRun(r, "word", back, token, TRUE, tokens)
                 ELSE IF c = "\\" THEN ShlexRun(r, "esc", "dq", token, TRUE, tokens)
                 ELSE ShlexRun(r, "dq", back, Append(token, c), TRUE, tokens)
            [] state = "esc" ->
                 IF back = "dq" /\ c # "\\" /\ c # "\""
                 THEN ShlexRun(r, back, back, token \o <<"\\", c>>, quoted, tokens)
                 ELSE ShlexRun(r, back, back, Append(token, c), quoted, tokens)

ShlexSplit(command) == ShlexRun(command, "ws", "ws", <<>>, FALSE, <<>>)

\* parts[0].split('/')[-1]
RECURSIVE Basename(_)
Basename(word) ==
  IF \A i \in 1..Len(word) : word[i] # "/" THEN word
  ELSE Basename(Tail(word))

\* op in command
Contains(text, op) ==
  \E i \in 1..(Len(text) - Len(op) + 1) : SubSeq(text, i, i + Len(op) - 1) = op

\* the guard as it would be if parts[0] were compared with its path prefix
IsCommandSafeNoBasename(command) ==
  LET parts == ShlexSplit(command)
  IN IF parts = ShlexError THEN [safe |-> FALSE, reason |-> "Failed to parse command"]
     ELSE IF parts = <<>> THEN [safe |-> FALSE, reason |-> "Empty command"]
     ELSE IF parts[1] \in BLOCKED_COMMANDS
       THEN [safe |-> FALSE, reason |-> "requires admin privileges and is blocked"]
     ELSE IF \E k \in 1..Len(dangerous_operators) :
               Contains(command, dangerous_operators[k])
       THEN [safe |-> FALSE, reason |-> "Command contains privilege escalation attempt"]
     ELSE [safe |-> TRUE, reason |-> ""]

\* the guard as it would be if it refused everything while a process of
\* the service is running
IsCommandSafeWhenQuiet(command) ==
  LET parts == ShlexSplit(command)
  IN IF \E i \in DOMAIN calls : calls[i].proc = "running"
       THEN [safe |-> FALSE, reason |-> "busy"]
     ELSE IF parts = ShlexError THEN [safe |-> FALSE, reason |-> "Failed to parse command"]
     ELSE IF parts = <<>> THEN [safe |-> FALSE, reason |-> "Empty command"]
     ELSE IF Basename(parts[1]) \in BLOCKED_COMMANDS
       THEN [safe |-> FALSE, reason |-> "requires admin privileges and is blocked"]
     ELSE IF \E k \in 1..Len(dangerous_operators) :
               Contains(command, dangerous_operators[k])
       THEN [safe |-> FALSE, reason |-> "Command contains privilege escalation attempt"]
     ELSE [safe |-> TRUE, reason |-> ""]

\* the guard as it would be without the test for an empty command line and
\* with a parse failure let through
IsCommandSafeEmptyAllowed(command) ==
  LET parts == ShlexSplit(command)
  IN IF parts = ShlexError \/ parts = <<>> THEN [safe |-> TRUE, reason |-> ""]
     ELSE IF Basename(parts[1]) \in BLOCKED_COMMANDS
       THEN [safe |-> FALSE, reason |-> "requires admin privileges and is blocked"]
     ELSE IF \E k \in 1..Len(dangerous_operators) :
               Contains(command, dangerous_operators[k])
       THEN [safe |-> FALSE, reason |-> "Command contains privilege escalation attempt"]
     ELSE [safe |-> TRUE, reason |-> ""]

\* _is_command_safe: [safe, reason]
IsCommandSafe(command) ==
  LET parts == ShlexSplit(command)
  IN IF parts = ShlexError THEN [safe |-> FALSE, reason |-> "Failed to parse command"]
     ELSE IF parts = <<>> THEN [safe |-> FALSE, reason |-> "Empty command"]
     ELSE IF Basename(parts[1]) \in BLOCKED_COMMANDS
       THEN [safe |-> FALSE, reason |-> "requires admin privileges and is blocked"]
     ELSE IF \E k \in 1..Len(dangerous_operators) :
               Contains(command, dangerous_operators[k])
       THEN [safe |-> FALSE, reason |-> "Command contains privilege escalation attempt"]
     ELSE [safe |-> TRUE, reason |-> ""]

(***************************************************************************)
(* The command lines the model submits.                                    *)
(***************************************************************************)
\* 'sudo ls'
CmdSudoLs == <<"s", "u", "d", "o", " ", "l", "s">>

\* 'systemctl status'
CmdSystemctl == <<"s", "y", "s", "t", "e", "m", "c", "t", "l", " ", "s", "t", "a", "t", "u", "s">>

\* '/bin/su'
CmdPathSu == <<"/", "b", "i", "n", "/", "s", "u">>

\* "'su' x"
CmdQuotedSu == <<"'", "s", "u", "'", " ", "x">>

\* 'Sudo ls'
CmdUpperSudo == <<"S", "u", "d", "o", " ", "l", "s">>

\* 'echo hi && sudo ls'
CmdAndSudo == <<"e", "c", "h", "o", " ", "h", "i", " ", "&", "&", " ", "s", "u", "d", "o", " ", "l", "s">>

\* 'ls | sudo tee x'
CmdPipeSudo == <<"l", "s", " ", "|", " ", "s", "u", "d", "o", " ", "t", "e", "e", " ", "x">>

\* 'ls |sudo x'
CmdPipeSudoTight == <<"l", "s", " ", "|", "s", "u", "d", "o", " ", "x">>

\* 'ls;mount'
CmdSemiMount == <<"l", "s", ";", "m", "o", "u", "n", "t">>

\* 'echo hi'
CmdEcho == <<"e", "c", "h", "o", " ", "h", "i">>

\* ''
CmdEmpty == <<>>

\* ' '
CmdBlank == <<" ">>

\* "'a"
CmdUnbalanced == <<"'", "a">>

(***************************************************************************)
(* The process runners of utils/command.  An invocation i is the record    *)
(* calls[i]: pc is where the invocation stands ("idle", "communicate"      *)
(* while it awaits the output, "wait" after the kill of a timed-out        *)
(* process, "returned"), proc the state of the process it spawned ("none", *)
(* "running", "killed": signalled and not yet gone, "exited").  An         *)
(* optional argument is a sequence of length 0 (None) or 1.  Time is not   *)
(* measured: the deadline of an invocation may pass at any moment while it *)
(* awaits the output, whatever timeout was asked for.                      *)
(***************************************************************************)
NoResult ==
  [stdout |-> <<>>, stderr |-> <<>>, exit_code |-> 0, success |-> FALSE, error |-> ""]

NoResponse ==
  [error |-> "", details |-> "", success |-> FALSE, exit_code |-> 0,
   stdout |-> <<>>, stderr |-> <<>>, working_dir |-> <<>>]

IdleCall ==
  [pc |-> "idle", via |-> "", command |-> <<>>, working_dir |-> <<>>,
   cwd |-> NoPath, proc |-> "none", spawned |-> 0,
   outb |-> <<>>, errb |-> <<>>, code |-> 0, result |-> NoResult, resp |-> NoResponse]

\* text[:max_output]
Truncate(text) ==
  SubSeq(text, 1, IF Len(text) < MaxOutputLength THEN Len(text) ELSE MaxOutputLength)

\* the result as it would be if every completed process counted as a success
NaturalResultAlwaysSuccess(via, outb, errb, code) ==
  [stdout |-> Truncate(Decode(outb, "utf-8", "replace").text),
   stderr |-> Truncate(Decode(errb, "utf-8", "replace").text),
   exit_code |-> code, success |-> TRUE, error |-> ""]

\* the result of a runner when the process exited by itself.  The
\* asynchronous runner decodes the bytes as UTF-8 and replaces what is
\* invalid; the synchronous one reads in text mode (strict decoding,
\* universal newlines) and fails on an invalid byte.
NaturalResult(via, outb, errb, code) ==
  LET so == Decode(outb, "utf-8", IF via = "safe" THEN "strict" ELSE "replace")
      se == Decode(errb, "utf-8", IF via = "safe" THEN "strict" ELSE "replace")
      out == IF via = "safe" THEN UniversalNewlines(so.text) ELSE so.text
      err == IF via = "safe" THEN UniversalNewlines(se.text) ELSE se.text
  IN IF ~so.ok \/ ~se.ok
     THEN [stdout |-> <<>>, stderr |-> <<"codec can't decode">>, exit_code |-> -1,
           success |-> FALSE, error |-> "codec can't decode"]
     ELSE [stdout |-> Truncate(out), stderr |-> Truncate(err), exit_code |-> code,
           success |-> (code = 0), error |-> ""]

TimeoutResult ==
  [stdout |-> <<>>, stderr |-> <<"Command timed out">>, exit_code |-> -1,
   success |-> FALSE, error |-> "timeout"]

NotFoundResult ==
  [stdout |-> <<>>, stderr |-> <<"Command not found">>, exit_code |-> -1,
   success |-> FALSE, error |-> "command_not_found"]

OtherErrorResult(e) ==
  [stdout |-> <<>>, stderr |-> <<e>>, exit_code |-> -1, success |-> FALSE, error |-> e]

\* what starting the process raises ("" when it starts): exec is the answer
\* of the host for the executable; a working directory that is missing or
\* no directory fails the start whatever the executable
SpawnError(f, cwd, exec) ==
  IF ~PathExists(f, cwd) THEN "FileNotFoundError"
  ELSE IF ~PathIsDir(f, cwd) THEN "NotADirectoryError"
  ELSE exec

StartFailure(e) ==
  IF e = "FileNotFoundError" THEN NotFoundResult ELSE OtherErrorResult(e)

\* the response of execute_command once the runner has returned
ExecuteResponse(f, cwd, result) ==
  [error |-> "", details |-> "", success |-> result.success,
   exit_code |-> result.exit_code, stdout |-> result.stdout,
   stderr |-> result.stderr, working_dir |-> Resolve(f, cwd)]

Rejected(error, details) ==
  [error |-> error, details |-> details, success |-> FALSE, exit_code |-> 0,
   stdout |-> <<>>, stderr |-> <<>>, working_dir |-> <<>>]

\* a runner invocation up to the start of the process
RunnerStart(f, c, exec) ==
  LET e == SpawnError(f, c.cwd, exec)
  IN IF e = ""
     THEN [c EXCEPT !.pc = "communicate", !.proc = "running", !.spawned = 1]
     ELSE [c EXCEPT !.pc = "returned", !.result = StartFailure(e),
                    !.resp = IF c.via = "execute"
                             THEN ExecuteResponse(f, c.cwd, StartFailure(e))
                             ELSE NoResponse]

\* execute_command as it would be without the test of the working directory
execute_commandWithoutDirTest(f, command, working_dir, timeout, exec) ==
  LET guard == IsCommandSafe(command)
      given == working_dir # <<>> /\ working_dir[1] # NoPath
      cwd == IF given THEN ExpandUser(working_dir[1])
             ELSE [anchor |-> "/", comps |-> WorkspaceDir]
      c == [IdleCall EXCEPT !.via = "execute", !.command = command,
                            !.working_dir = working_dir, !.cwd = cwd]
  IN IF ~guard.safe
       THEN [c EXCEPT !.pc = "returned",
                      !.resp = Rejected("Command blocked", guard.reason)]
     ELSE IF given /\ ~TerminalIsPathAllowed(f, cwd)
       THEN [c EXCEPT !.pc = "returned",
                      !.resp = Rejected(AccessDenied,
                                 "Working directory is outside allowed directories")]
     ELSE RunnerStart(f, c, exec)

\* execute_command up to its first suspension: the guards, then the start
execute_command(f, command, working_dir, timeout, exec) ==
  LET guard == IsCommandSafe(command)
      given == working_dir # <<>> /\ working_dir[1] # NoPath
      cwd == IF given THEN ExpandUser(working_dir[1])
             ELSE [anchor |-> "/", comps |-> WorkspaceDir]
      c == [IdleCall EXCEPT !.via = "execute", !.command = command,
                            !.working_dir = working_dir, !.cwd = cwd]
  IN IF ~guard.safe
       THEN [c EXCEPT !.pc = "returned",
                      !.resp = Rejected("Command blocked", guard.reason)]
     ELSE IF given /\ ~TerminalIsPathAllowed(f, cwd)
       THEN [c EXCEPT !.pc = "returned",
                      !.resp = Rejected(AccessDenied,
                                 "Working directory is outside allowed directories")]
     ELSE IF given /\ (~PathExists(f, cwd) \/ ~PathIsDir(f, cwd))
       THEN [c EXCEPT !.pc = "returned",
                      !.resp = Rejected("Invalid working directory",
                                        "Directory does not exist")]
     ELSE RunnerStart(f, c, exec)

\* run_command_async / run_command_safe called with an argument vector
run_command(f, via, cwd, timeout, exec) ==
  RunnerStart(f, [IdleCall EXCEPT !.via = via, !.cwd = cwd], exec)

\* the completion as it would be if a failed command were started again
CompleteCallRetrying(f, c) ==
  LET result == NaturalResult(c.via, c.outb, c.errb, c.code)
  IN IF ~result.success
     THEN [c EXCEPT !.proc = "running", !.spawned = c.spawned + 1,
                    !.outb = <<>>, !.errb = <<>>, !.code = 0]
     ELSE [c EXCEPT !.pc = "returned", !.result = result,
                    !.resp = IF c.via = "execute"
                             THEN ExecuteResponse(f, c.cwd, result)
                             ELSE NoResponse]

\* the awaited output arrived: the result of a natural exit
CompleteCall(f, c) ==
  LET result == NaturalResult(c.via, c.outb, c.errb, c.code)
  IN [c EXCEPT !.pc = "returned", !.result = result,
               !.resp = IF c.via = "execute" THEN ExecuteResponse(f, c.cwd, result)
                        ELSE NoResponse]

\* the deadline as it would be handled without process.kill()
KillCallWithoutKill(c) == [c EXCEPT !.pc = "wait"]

\* the deadline passed first: process.kill(), then the wait for the process
KillCall(c) ==
  [c EXCEPT !.pc = "wait", !.proc = IF c.proc = "running" THEN "killed" ELSE c.proc]

\* the runner as it would be without the wait after the kill
WaitSkipped(c) == TRUE

\* the wait is over once the process is gone
WaitOver(c) == c.proc = "exited"

\* the return after a timeout as it would be if the output collected so far
\* were kept
TimeoutReturnKeepingOutput(f, c) ==
  LET kept == [TimeoutResult EXCEPT
                 !.stdout = Truncate(Decode(c.outb, "utf-8", "replace").text)]
  IN [c EXCEPT !.pc = "returned", !.result = kept,
               !.resp = IF c.via = "execute" THEN ExecuteResponse(f, c.cwd, kept)
                        ELSE NoResponse]

TimeoutReturn(f, c) ==
  [c EXCEPT !.pc = "returned", !.result = TimeoutResult,
            !.resp = IF c.via = "execute" THEN ExecuteResponse(f, c.cwd, TimeoutResult)
                     ELSE NoResponse]

\* 'rm -rf /c/ws'
CmdRmWs == <<"r", "m", " ", "-", "r", "f", " ", "/", "c", "/", "w", "s">>

\* 'ln -s /e /c/ws'
CmdLnWs ==
  <<"l", "n", " ", "-", "s", " ", "/",
     "e", " ", "/", "c", "/", "w", "s">>

\* 'rm -rf /c/ws/d'
CmdRmD ==
  <<"r", "m", " ", "-", "r", "f", " ",
     "/", "c", "/", "w", "s", "/", "d">>

\* 'ln -s /e /c/ws/d'
CmdLnD ==
  <<"l", "n", " ", "-", "s", " ", "/", "e",
     " ", "/", "c", "/", "w", "s", "/", "d">>

(***************************************************************************)
(* get_environment_variables.  The environment maps names (sequences of    *)
(* characters) to values.                                                  *)
(***************************************************************************)
EnvPath == <<"P", "A", "T", "H">>

EnvApiKey == <<"A", "P", "I", "_", "K", "E", "Y">>

EnvMyToken == <<"m", "y", "_", "t", "o", "k", "e", "n">>

EnvSecret == <<"S", "e", "c", "r", "e", "t">>

EnvLang == <<"L", "A", "N", "G">>

sensitive_patterns ==
  <<<<"K", "E", "Y">>,
    <<"S", "E", "C", "R", "E", "T">>,
    <<"P", "A", "S", "S", "W", "O", "R", "D">>,
    <<"T", "O", "K", "E", "N">>,
    <<"C", "R", "E", "D", "E", "N", "T", "I", "A", "L">>>>

LowerCase ==
  <<"a", "b", "c", "d", "e", "f", "g", "h", "i", "j", "k", "l", "m",
    "n", "o", "p", "q", "r", "s", "t", "u", "v", "w", "x", "y", "z">>

UpperCase ==
  <<"A", "B", "C", "D", "E", "F", "G", "H", "I", "J", "K", "L", "M",
    "N", "O", "P", "Q", "R", "S", "T", "U", "V", "W", "X", "Y", "Z">>

\* str.upper()
UpperChar(ch) ==
  IF \E k \in 1..Len(LowerCase) : LowerCase[k] = ch
  THEN UpperCase[CHOOSE k \in 1..Len(LowerCase) : LowerCase[k] = ch]
  ELSE ch

Upper(text) == [k \in 1..Len(text) |-> UpperChar(text[k])]

Redacted == "***REDACTED***"

\* the test as it would be without upper()
IsSensitiveExact(key) ==
  \E k \in 1..Len(sensitive_patterns) : Contains(key, sensitive_patterns[k])

IsSensitive(key) ==
  \E k \in 1..Len(sensitive_patterns) : Contains(Upper(key), sensitive_patterns[k])

get_environment_variables(environ) ==
  LET safe_vars == [key \in DOMAIN environ |->
                      IF IsSensitive(key) THEN Redacted ELSE environ[key]]
  IN Response([environment_variables |-> safe_vars,
               count |-> Cardinality(DOMAIN safe_vars)])

get_current_directory(f) ==
  Response([resolved |-> ResolveDir(f, CwdDir),
            flag |-> TerminalIsPathAllowed(f, [anchor |-> "/", comps |-> CwdDir])])

(***************************************************************************)
(* The requests of the model.                                              *)
(***************************************************************************)
Raw(anchor, comps) == [anchor |-> anchor, comps |-> comps]

Dot == Raw("", <<".">>)

\* /e/pw, ws/d, ws/d/a, ~/../e/pw
RawPaths ==
  {Raw("/", <<"e", "pw">>), Raw("", <<"ws", "d">>), Raw("", <<"ws", "d", "a">>),
   Raw("~", <<"..", "e", "pw">>)}

\* /e/pw, ws/d
RootPaths == {Raw("/", <<"e", "pw">>), Raw("", <<"ws", "d">>)}

Contents == {<<"E_ACUTE">>, <<"a", "CR", "b">>}

Encodings == {"utf-8", "ascii", "binary"}

CallIds == {1}

\* None, ws, ws/d, ../e
WorkingDirs ==
  {<<>>, <<Raw("", <<"ws">>)>>, <<Raw("", <<"ws", "d">>)>>, <<Raw("", <<"..", "e">>)>>}

Timeouts == {<<>>, <<1>>}

Commands ==
  {CmdSudoLs, CmdSystemctl, CmdPathSu, CmdQuotedSu, CmdUpperSudo, CmdAndSudo,
   CmdPipeSudo, CmdPipeSudoTight, CmdSemiMount, CmdEcho, CmdEmpty, CmdBlank,
   CmdUnbalanced}

\* what the host answers when the executable is started
ExecOutcomes == {"", "FileNotFoundError", "PermissionError"}

\* the bytes a process writes: nothing, "a", "a" E_ACUTE "a" "a", an invalid
\* byte, "a" CR LF
Outputs == {<<>>, <<97>>, <<97, 195, 169, 97, 97>>, <<255>>, <<97, 13, 10>>}

ErrOutputs == {<<>>, <<98, 98, 98, 98>>}

ExitCodes == {0, 1, -15}

EnvNames == {EnvPath, EnvApiKey, EnvMyToken, EnvSecret, EnvLang}

EnvValues == {"v1", "v2"}

(***************************************************************************)
(* The filesystem effect of the programs rm and ln.                        *)
(***************************************************************************)
RmRf(f, p) ==
  LET w == Walk(f, <<>>, p, FALSE, MaxSymlinkHops)
  IN IF w.ok /\ Exists(f, w.path) /\ w.path # <<>> THEN Remove(f, w.path) ELSE f

LnS(f, target, p) ==
  LET w == Walk(f, <<>>, p, FALSE, MaxSymlinkHops)
  IN IF w.ok /\ ~Exists(f, w.path) THEN Put(f, w.path, LinkNode(target)) ELSE f

EffectCommands == {CmdRmWs, CmdLnWs, CmdRmD, CmdLnD}

CommandEffect(f, command) ==
  CASE command = CmdRmWs -> RmRf(f, WorkspaceDir)
    [] command = CmdLnWs -> LnS(f, OutsideDir, WorkspaceDir)
    [] command = CmdRmD -> RmRf(f, Append(WorkspaceDir, "d"))
    [] command = CmdLnD -> LnS(f, OutsideDir, Append(WorkspaceDir, "d"))

(***************************************************************************)
(* Initial states.                                                         *)
(***************************************************************************)
FsBase ==
  [p \in {<<>>, HomeDir, CwdDir, WorkspaceDir, OutsideDir, OutsideFile} |->
     IF p = OutsideFile THEN FileNode(<<97>>) ELSE DirNode]

\* the workspace as created, with a link ws/d to /e, and never created
FsVariants ==
  {FsBase, Put(FsBase, Append(WorkspaceDir, "d"), LinkNode(OutsideDir)),
   Remove(FsBase, WorkspaceDir)}

EnvBase == [key \in {EnvPath, EnvApiKey} |-> "v1"]

Envs == UNION {[names -> EnvValues] : names \in SUBSET EnvNames}

Init ==
  /\ fs = FsBase
  /\ last = Blank
  /\ env = EnvBase
  /\ calls = [i \in CallIds |-> IdleCall]

(***************************************************************************)
(* FilesystemService requests.  A request is atomic: the handlers are      *)
(* synchronous functions.                                                  *)
(***************************************************************************)
ReadFile(path, encoding) ==
  /\ last' = [op |-> "read_file", path |-> path, encoding |-> encoding]
               @@ read_file(fs, path, encoding)
  /\ UNCHANGED <<fs, env, calls>>

WriteFile(path, content, encoding, create_dirs) ==
  LET w == write_file(fs, path, content, encoding, create_dirs)
  IN /\ fs' = w.fs
     /\ last' = [op |-> "write_file", path |-> path, encoding |-> encoding,
                 arg |-> content, flag |-> create_dirs] @@ w.resp
     /\ UNCHANGED <<env, calls>>

ListDirectory(path, show_hidden, recursive) ==
  /\ last' = [op |-> "list_directory", path |-> path, flag |-> recursive,
              flag2 |-> show_hidden]
               @@ list_directory(fs, path, show_hidden, recursive)
  /\ UNCHANGED <<fs, env, calls>>

CreateDirectory(path, parents) ==
  LET m == create_directory(fs, path, parents)
  IN /\ fs' = m.fs
     /\ last' = [op |-> "create_directory", path |-> path, flag |-> parents] @@ m.resp
     /\ UNCHANGED <<env, calls>>

DeletePath(path, recursive) ==
  LET d == delete_path(fs, path, recursive)
  IN /\ fs' = d.fs
     /\ last' = [op |-> "delete_path", path |-> path, flag |-> recursive] @@ d.resp
     /\ UNCHANGED <<env, calls>>

GetPathInfo(path) ==
  /\ last' = [op |-> "get_path_info", path |-> path] @@ get_path_info(fs, path)
  /\ UNCHANGED <<fs, env, calls>>

\* an execute_command request whose command passes the guards, is started in
\* the working directory of the server and runs rm or ln to its end
ExecuteEffect(command) ==
  /\ execute_command(fs, command, <<Dot>>, <<>>, "").pc = "communicate"
  /\ fs' = CommandEffect(fs, command)
  /\ last' = [op |-> "execute_command", arg |-> command, success |-> TRUE] @@ Blank
  /\ UNCHANGED <<env, calls>>

\* the requests of the filesystem service over the given inputs
FsRequests(paths, contents, encodings) ==
  \/ \E path \in paths, encoding \in encodings : ReadFile(path, encoding)
  \/ \E path \in paths, content \in contents, encoding \in encodings,
        create_dirs \in BOOLEAN : WriteFile(path, content, encoding, create_dirs)
  \/ \E path \in paths, show_hidden \in BOOLEAN, recursive \in BOOLEAN :
        ListDirectory(path, show_hidden, recursive)
  \/ \E path \in paths, parents \in BOOLEAN : CreateDirectory(path, parents)
  \/ \E path \in paths, recursive \in BOOLEAN : DeletePath(path, recursive)
  \/ \E path \in paths : GetPathInfo(path)

\* the file operations, with commands that remove ws/d and link it to /e
NextFs ==
  \/ FsRequests(RawPaths, Contents, Encodings)
  \/ \E command \in {CmdRmD, CmdLnD} : ExecuteEffect(command)

SpecFs == Init /\ [][NextFs]_vars

\* the file operations, with commands that remove the workspace directory
\* and link it to /e
NextRoots ==
  \/ FsRequests(RootPaths, {<<"E_ACUTE">>}, {"utf-8"})
  \/ \E command \in {CmdRmWs, CmdLnWs} : ExecuteEffect(command)

SpecRoots == Init /\ [][NextRoots]_vars

(***************************************************************************)
(* The file operations on a workspace that holds a hidden directory ws/.g  *)
(* with a file x, and a link ws/d to /e.                                   *)
(***************************************************************************)
FsList ==
  LET hidden == Append(WorkspaceDir, ".g")
      linked == Put(FsBase, Append(WorkspaceDir, "d"), LinkNode(OutsideDir))
  IN Put(Put(linked, hidden, DirNode), Append(hidden, "x"), FileNode(<<97>>))

\* ws, ws/.g, ws/.g/x
ListPaths ==
  {Raw("", <<"ws">>), Raw("", <<"ws", ".g">>), Raw("", <<"ws", ".g", "x">>)}

InitList ==
  /\ fs = FsList
  /\ last = Blank
  /\ env = EnvBase
  /\ calls = [i \in CallIds |-> IdleCall]

NextList ==
  \/ FsRequests(ListPaths, {<<"a">>}, {"utf-8"})
  \/ \E command \in {CmdRmD, CmdLnD} : ExecuteEffect(command)

SpecList == InitList /\ [][NextList]_vars

(***************************************************************************)
(* TerminalService.execute_command and the runners, step by step.  The     *)
(* filesystem of a run is one of FsVariants.                               *)
(***************************************************************************)
InitExec ==
  /\ fs \in FsVariants
  /\ last = Blank
  /\ env = EnvBase
  /\ calls = [i \in CallIds |-> IdleCall]

Free(i) == calls[i].pc \in {"idle", "returned"}

ExecuteCommand(i, command, working_dir, timeout, exec) ==
  /\ Free(i)
  /\ calls' = [calls EXCEPT ![i] = execute_command(fs, command, working_dir, timeout, exec)]
  /\ UNCHANGED <<fs, last, env>>

RunCommand(i, via, timeout, exec) ==
  /\ Free(i)
  /\ calls' = [calls EXCEPT ![i] =
                 run_command(fs, via, [anchor |-> "/", comps |-> WorkspaceDir],
                             timeout, exec)]
  /\ UNCHANGED <<fs, last, env>>

\* the process ends by itself, having written outb and errb
ProcessExit(i, outb, errb, code) ==
  /\ calls[i].proc = "running"
  /\ calls' = [calls EXCEPT ![i].proc = "exited", ![i].outb = outb,
                            ![i].errb = errb, ![i].code = code]
  /\ UNCHANGED <<fs, last, env>>

\* a killed process goes away
ProcessDies(i) ==
  /\ calls[i].proc = "killed"
  /\ calls' = [calls EXCEPT ![i].proc = "exited", ![i].code = -9]
  /\ UNCHANGED <<fs, last, env>>

Complete(i) ==
  /\ calls[i].pc = "communicate"
  /\ calls[i].proc = "exited"
  /\ calls' = [calls EXCEPT ![i] = CompleteCall(fs, calls[i])]
  /\ UNCHANGED <<fs, last, env>>

\* the deadline of one invocation as it would be if it killed the processes
\* of all invocations
TimeoutKillsAll(i) ==
  /\ calls[i].pc = "communicate"
  /\ calls' = [j \in DOMAIN calls |->
                IF j = i THEN KillCall(calls[j])
                ELSE [calls[j] EXCEPT !.proc = IF @ = "running" THEN "killed" ELSE @]]
  /\ UNCHANGED <<fs, last, env>>

Timeout(i) ==
  /\ calls[i].pc = "communicate"
  /\ calls' = [calls EXCEPT ![i] = KillCall(calls[i])]
  /\ UNCHANGED <<fs, last, env>>

ReturnTimeout(i) ==
  /\ calls[i].pc = "wait"
  /\ WaitOver(calls[i])
  /\ calls' = [calls EXCEPT ![i] = TimeoutReturn(fs, calls[i])]
  /\ UNCHANGED <<fs, last, env>>

NextExec ==
  \/ \E i \in CallIds, command \in Commands, working_dir \in WorkingDirs,
        timeout \in Timeouts, exec \in ExecOutcomes :
        ExecuteCommand(i, command, working_dir, timeout, exec)
  \/ \E i \in CallIds, via \in {"async", "safe"}, timeout \in Timeouts,
        exec \in ExecOutcomes : RunCommand(i, via, timeout, exec)
  \/ \E i \in CallIds, outb \in Outputs, errb \in ErrOutputs, code \in ExitCodes :
        ProcessExit(i, outb, errb, code)
  \/ \E i \in CallIds : ProcessDies(i)
  \/ \E i \in CallIds : Complete(i)
  \/ \E i \in CallIds : Timeout(i)
  \/ \E i \in CallIds : ReturnTimeout(i)

SpecExec == InitExec /\ [][NextExec]_vars

(***************************************************************************)
(* Two invocations of execute_command in flight at once.  The event loop   *)
(* runs one of them up to its next await, then any of them.                *)
(***************************************************************************)
ConcIds == {1, 2}

InitConc ==
  /\ fs = FsBase
  /\ last = Blank
  /\ env = EnvBase
  /\ calls = [i \in ConcIds |-> IdleCall]

NextConc ==
  \/ \E i \in ConcIds, command \in {CmdEcho, CmdSudoLs}, exec \in ExecOutcomes :
        ExecuteCommand(i, command, <<>>, <<>>, exec)
  \/ \E i \in ConcIds, code \in {0, 1} : ProcessExit(i, <<97>>, <<>>, code)
  \/ \E i \in ConcIds : ProcessDies(i)
  \/ \E i \in ConcIds : Complete(i)
  \/ \E i \in ConcIds : Timeout(i)
  \/ \E i \in ConcIds : ReturnTimeout(i)

SpecConc == InitConc /\ [][NextConc]_vars

(***************************************************************************)
(* The command guard called by itself, between the steps of an             *)
(* invocation of execute_command.  last.entries keeps every answer the     *)
(* guard has given.                                                        *)
(***************************************************************************)
GuardCommands == {CmdSudoLs, CmdPipeSudoTight, CmdEcho, CmdEmpty, CmdUnbalanced}

IsCommandSafeCall(command) ==
  LET r == IsCommandSafe(command)
      answer == [command |-> command, safe |-> r.safe, reason |-> r.reason]
  IN /\ last' = [op |-> "_is_command_safe", arg |-> command, flag |-> r.safe,
                 type |-> r.reason, entries |-> last.entries \cup {answer}] @@ Blank
     /\ UNCHANGED <<fs, env, calls>>

NextGuard ==
  \/ \E command \in GuardCommands : IsCommandSafeCall(command)
  \/ \E i \in CallIds, command \in {CmdEcho, CmdSudoLs} :
        ExecuteCommand(i, command, <<>>, <<>>, "")
  \/ \E i \in CallIds : ProcessExit(i, <<97>>, <<>>, 0)
  \/ \E i \in CallIds : Complete(i)

SpecGuard == InitExec /\ [][NextGuard]_vars

(***************************************************************************)
(* execute_command over every kind of working directory: omitted, a        *)
(* directory, a link that leaves the roots, a missing path, a file.        *)
(***************************************************************************)
\* the filesystems of FsVariants, and the workspace with a file ws/d
DirVariants == FsVariants \cup {Put(FsBase, Append(WorkspaceDir, "d"), FileNode(<<97>>))}

InitDir ==
  /\ fs \in DirVariants
  /\ last = Blank
  /\ env = EnvBase
  /\ calls = [i \in CallIds |-> IdleCall]

NextDir ==
  \/ \E i \in CallIds, command \in {CmdEcho, CmdSudoLs}, working_dir \in WorkingDirs,
        timeout \in Timeouts, exec \in ExecOutcomes :
        ExecuteCommand(i, command, working_dir, timeout, exec)
  \/ \E i \in CallIds, outb \in {<<>>, <<97>>}, code \in {0, 1} :
        ProcessExit(i, outb, <<>>, code)
  \/ \E i \in CallIds : ProcessDies(i)
  \/ \E i \in CallIds : Complete(i)
  \/ \E i \in CallIds : Timeout(i)
  \/ \E i \in CallIds : ReturnTimeout(i)

SpecDir == InitDir /\ [][NextDir]_vars

\* SpecDir with the scheduling of the event loop: a coroutine whose awaited
\* output or process is ready is resumed, the deadline of wait_for is
\* finite and passes, and a killed process goes away.  Nothing makes a
\* running process exit.
FairDir ==
  \A i \in CallIds :
    /\ WF_vars(Complete(i))
    /\ WF_vars(Timeout(i))
    /\ WF_vars(ProcessDies(i))
    /\ WF_vars(ReturnTimeout(i))

SpecDirFair == SpecDir /\ FairDir

(***************************************************************************)
(* The two runners side by side: invocation 1 is run_command_safe,         *)
(* invocation 2 run_command_async, both in the workspace directory.        *)
(***************************************************************************)
RunnerOf(i) == IF i = 1 THEN "safe" ELSE "async"

\* "a", an invalid byte, "a" CR LF
RunnerOutputs == {<<97>>, <<255>>, <<97, 13, 10>>}

NextRunners ==
  \/ \E i \in ConcIds, exec \in ExecOutcomes : RunCommand(i, RunnerOf(i), <<>>, exec)
  \/ \E i \in ConcIds, outb \in RunnerOutputs, code \in {0, 1} :
        ProcessExit(i, outb, <<>>, code)
  \/ \E i \in ConcIds : ProcessDies(i)
  \/ \E i \in ConcIds : Complete(i)
  \/ \E i \in ConcIds : Timeout(i)
  \/ \E i \in ConcIds : ReturnTimeout(i)

SpecRunners == InitConc /\ [][NextRunners]_vars

(***************************************************************************)
(* A file operation next to a running process.  The handler is one         *)
(* synchronous function, so no other request is served between its guard   *)
(* and its primitives; a process that execute_command started earlier is   *)
(* another process of the host and acts whenever the host schedules it.    *)
(* last.pc = "guarded" is the handler between the two.                     *)
(***************************************************************************)
\* ws/d/pw
RacePaths == {Raw("", <<"ws", "d", "pw">>)}

Guarded(request) == [request EXCEPT !.pc = "guarded"]

\* write_file up to the answer of its guard
WriteFileGuard(path, content, create_dirs) ==
  LET request == [op |-> "write_file", path |-> path, encoding |-> "utf-8",
                  arg |-> content, flag |-> create_dirs]
  IN /\ last.pc = "done"
     /\ last' = IF IsPathAllowed(fs, ExpandUser(path))
                THEN Guarded(request @@ Blank)
                ELSE request @@ Response([error |-> AccessDenied])
     /\ UNCHANGED <<fs, env, calls>>

\* write_file from its guard on
WriteFilePrimitives ==
  LET w == write_file_primitives(fs, last.path, last.arg, last.encoding, last.flag)
  IN /\ last.pc = "guarded"
     /\ last.op = "write_file"
     /\ fs' = w.fs
     /\ last' = [op |-> "write_file", path |-> last.path, encoding |-> last.encoding,
                 arg |-> last.arg, flag |-> last.flag] @@ w.resp
     /\ UNCHANGED <<env, calls>>

\* delete_path up to the answer of its guard
DeletePathGuard(path, recursive) ==
  LET request == [op |-> "delete_path", path |-> path, flag |-> recursive]
  IN /\ last.pc = "done"
     /\ last' = IF IsPathAllowed(fs, ExpandUser(path))
                THEN Guarded(request @@ Blank)
                ELSE request @@ Response([error |-> AccessDenied])
     /\ UNCHANGED <<fs, env, calls>>

\* delete_path from its guard on
DeletePathPrimitives ==
  LET d == delete_path_primitives(fs, last.path, last.flag)
  IN /\ last.pc = "guarded"
     /\ last.op = "delete_path"
     /\ fs' = d.fs
     /\ last' = [op |-> "delete_path", path |-> last.path, flag |-> last.flag] @@ d.resp
     /\ UNCHANGED <<env, calls>>

\* the process of an invocation does its work, rm or ln, and exits
ProcessActs(i) ==
  /\ calls[i].proc = "running"
  /\ calls[i].command \in EffectCommands
  /\ fs' = CommandEffect(fs, calls[i].command)
  /\ calls' = [calls EXCEPT ![i].proc = "exited"]
  /\ UNCHANGED <<last, env>>

NextRace ==
  \/ \E path \in RacePaths, content \in {<<"a">>, <<"b", "b">>}, create_dirs \in BOOLEAN :
        WriteFileGuard(path, content, create_dirs)
  \/ WriteFilePrimitives
  \/ \E path \in RacePaths, recursive \in BOOLEAN : DeletePathGuard(path, recursive)
  \/ DeletePathPrimitives
  \/ \E i \in CallIds, command \in {CmdRmD, CmdLnD} :
        last.pc = "done" /\ ExecuteCommand(i, command, <<>>, <<>>, "")
  \/ \E i \in CallIds : ProcessActs(i)
  \/ \E i \in CallIds : last.pc = "done" /\ Complete(i)

SpecRace == Init /\ [][NextRace]_vars

(***************************************************************************)
(* The introspection requests, over every environment of the model.        *)
(***************************************************************************)
InitEnv ==
  /\ fs = FsBase
  /\ last = Blank
  /\ env \in Envs
  /\ calls = [i \in CallIds |-> IdleCall]

GetEnvironmentVariables ==
  /\ last' = [op |-> "get_environment_variables"] @@ get_environment_variables(env)
  /\ UNCHANGED <<fs, env, calls>>

GetCurrentDirectory ==
  /\ last' = [op |-> "get_current_directory"] @@ get_current_directory(fs)
  /\ UNCHANGED <<fs, env, calls>>

NextEnv == GetEnvironmentVariables \/ GetCurrentDirectory

SpecEnv == InitEnv /\ [][NextEnv]_vars

(***************************************************************************)
(* Model identifiers.  An identifier is a text over letters ("a", "Z"), a  *)
(* digit, "-", "_", ".", "/", a blank and LF.                              *)
(***************************************************************************)
\* the characters of [a-zA-Z0-9_-]
IdChars == {"a", "Z", "1", "-", "_"}

IdAlphabet == IdChars \cup {".", "/", " ", "LF"}

\* $ of a regular expression without re.MULTILINE: the end of the text, or
\* the place before a line feed that ends the text
AtDollar(text, k) ==
  k = Len(text) \/ (k = Len(text) - 1 /\ text[Len(text)] = "LF")

\* re.match(r'^[a-zA-Z0-9_-]+$', text)
MatchesIdPattern(text) ==
  \E k \in 1..Len(text) :
    (\A j \in 1..k : text[j] \in IdChars) /\ AtDollar(text, k)

\* sanitize_model_id: the exception raised ("" for none) and the value
sanitize_model_id(model_id) ==
  IF ~MatchesIdPattern(model_id) THEN [raised |-> "ValueError", value |-> <<>>]
  ELSE [raised |-> "", value |-> model_id]

\* Settings.models_dir
models_dir == Append(WorkspaceDir, "models")

\* the parts of a text between "/", empty parts and "." dropped, as
\* pathlib splits the right operand of "/"
RECURSIVE PathParts(_, _)
PathParts(text, part) ==
  LET done == IF part \in {<<>>, <<".">>} THEN <<>> ELSE <<part>>
  IN IF text = <<>> THEN done
     ELSE IF Head(text) = "/" THEN done \o PathParts(Tail(text), <<>>)
     ELSE PathParts(Tail(text), Append(part, Head(text)))

\* get_model_dir: settings.models_dir / sanitized_id, as the directory the
\* path starts from (the root when the right operand is absolute) and the
\* parts below it
get_model_dir(model_id) ==
  LET sanitized_id == sanitize_model_id(model_id)
  IN IF sanitized_id.raised # ""
     THEN [raised |-> sanitized_id.raised, base |-> <<>>, parts |-> <<>>]
     ELSE [raised |-> "",
           base |-> IF sanitized_id.value # <<>> /\ Head(sanitized_id.value) = "/"
                    THEN <<>> ELSE models_dir,
           parts |-> PathParts(sanitized_id.value, <<>>)]

MaxIdLen == 3

ModelIds == UNION {[1..n -> IdAlphabet] : n \in 0..MaxIdLen}

\* the argument of a call is drawn at the start and kept in last.arg
InitModel ==
  /\ fs = FsBase
  /\ last \in {[Blank EXCEPT !.arg = model_id] : model_id \in ModelIds}
  /\ env = EnvBase
  /\ calls = [i \in CallIds |-> IdleCall]

SanitizeModelId ==
  LET r == sanitize_model_id(last.arg)
  IN /\ last' = [op |-> "sanitize_model_id", arg |-> last.arg, error |-> r.raised,
                 content |-> r.value] @@ Blank
     /\ UNCHANGED <<fs, env, calls>>

GetModelDir ==
  LET r == get_model_dir(last.arg)
  IN /\ last' = [op |-> "get_model_dir", arg |-> last.arg, error |-> r.raised,
                 resolved |-> r.base, content |-> r.parts] @@ Blank
     /\ UNCHANGED <<fs, env, calls>>

NextModel == SanitizeModelId \/ GetModelDir

SpecModel == InitModel /\ [][NextModel]_vars

(***************************************************************************)
(* SlicerService.slice_model, step by step.  Invocation 1 of the runner is *)
(* the STL generation of the call, invocation 2 its slicer run; last holds *)
(* the call: pc "stl" while it awaits the first, "slicing" while it awaits *)
(* the second, "done" once it has returned.  A new call starts when the    *)
(* one before has returned.                                                *)
(***************************************************************************)
StlCall == 1

SlicerCall == 2

EnvSlicerBin == <<"S", "L", "I", "C", "E", "R", "_", "B", "I", "N">>

EnvOpenscadBin == <<"O", "P", "E", "N", "S", "C", "A", "D", "_", "B", "I", "N">>

\* Settings.slicer_bin and Settings.openscad_bin, read from the environment
slicer_bin(environ) ==
  IF EnvSlicerBin \in DOMAIN environ THEN environ[EnvSlicerBin] ELSE ""

openscad_bin(environ) ==
  IF EnvOpenscadBin \in DOMAIN environ THEN environ[EnvOpenscadBin] ELSE "openscad"

\* the directory of a model whose id has one character
ModelDir(model_id) ==
  LET mdir == get_model_dir(model_id)
  IN Raw("/", mdir.base \o [k \in 1..Len(mdir.parts) |-> mdir.parts[k][1]])

ScadPath(model_id) == PathJoin(ModelDir(model_id), "main.scad")

StlPath(model_id) == PathJoin(ModelDir(model_id), "model.stl")

GcodePath(model_id) == PathJoin(ModelDir(model_id), "model.gcode")

SliceError(error) == [error |-> error] @@ Blank

\* slice_model up to its first suspension: the settings, the model, then
\* the start of OpenSCAD
slice_model(f, environ, model_id, exec) ==
  LET idle == [i \in {StlCall, SlicerCall} |-> IdleCall]
  IN IF slicer_bin(environ) = ""
       THEN [resp |-> SliceError("SLICER_BIN not configured"), calls |-> idle]
     ELSE IF openscad_bin(environ) = ""
       THEN [resp |-> SliceError("OPENSCAD_BIN not configured"), calls |-> idle]
     ELSE IF get_model_dir(model_id).raised # ""
       THEN [resp |-> SliceError(get_model_dir(model_id).raised), calls |-> idle]
     ELSE IF ~PathExists(f, ScadPath(model_id))
       THEN [resp |-> SliceError("Model not found"), calls |-> idle]
     ELSE [resp |-> [pc |-> "stl"] @@ Blank,
           calls |-> [idle EXCEPT ![StlCall] =
                        run_command(f, "async", ModelDir(model_id), <<180>>, exec)]]

\* slice_model resumed with the result of the STL generation as it would be
\* if the slicer were started whatever that result
slice_model_after_stlUngated(f, model_id, stl_result, exec) ==
  [resp |-> [pc |-> "slicing"] @@ Blank,
   started |-> TRUE,
   call |-> run_command(f, "async", ModelDir(model_id), <<300>>, exec)]

\* slice_model resumed with the result of the STL generation
slice_model_after_stl(f, model_id, stl_result, exec) ==
  IF ~stl_result.success
    THEN [resp |-> SliceError("STL generation failed"), started |-> FALSE,
          call |-> IdleCall]
  ELSE IF ~PathExists(f, StlPath(model_id))
    THEN [resp |-> SliceError("STL file not generated"), started |-> FALSE,
          call |-> IdleCall]
  ELSE [resp |-> [pc |-> "slicing"] @@ Blank,
        started |-> TRUE,
        call |-> run_command(f, "async", ModelDir(model_id), <<300>>, exec)]

\* slice_model resumed with the result of the slicer
slice_model_after_slicer(f, model_id, slice_result) ==
  IF ~slice_result.success THEN SliceError("Slicing failed")
  ELSE IF ~PathExists(f, GcodePath(model_id)) THEN SliceError("G-code not generated")
  ELSE [resolved |-> Resolve(f, GcodePath(model_id)),
        content |-> slice_result.stdout] @@ Blank

\* the ids a, valid, and /, which sanitize_model_id refuses
SliceModelIds == {<<"a">>, <<"/">>}

\* the slicer is configured; it is not; OpenSCAD is configured away
SliceEnvs ==
  {EnvBase @@ (EnvSlicerBin :> "v1"), EnvBase,
   EnvBase @@ (EnvSlicerBin :> "v1") @@ (EnvOpenscadBin :> "")}

\* the models directory with the model a, with and without its main.scad
FsModels ==
  LET dirs == Put(Put(FsBase, models_dir, DirNode), Append(models_dir, "a"), DirNode)
  IN {dirs, Put(dirs, ScadPath(<<"a">>).comps, FileNode(<<97>>))}

InitSlice ==
  /\ fs \in FsModels
  /\ last = Blank
  /\ env \in SliceEnvs
  /\ calls = [i \in {StlCall, SlicerCall} |-> IdleCall]

SliceModel(model_id, exec) ==
  LET s == slice_model(fs, env, model_id, exec)
  IN /\ last.pc = "done"
     /\ last' = [op |-> "slice_model", arg |-> model_id] @@ s.resp
     /\ calls' = s.calls
     /\ UNCHANGED <<fs, env>>

SliceAfterStl(exec) ==
  LET s == slice_model_after_stl(fs, last.arg, calls[StlCall].result, exec)
  IN /\ last.pc = "stl"
     /\ calls[StlCall].pc = "returned"
     /\ last' = [op |-> "slice_model", arg |-> last.arg] @@ s.resp
     /\ calls' = IF s.started THEN [calls EXCEPT ![SlicerCall] = s.call] ELSE calls
     /\ UNCHANGED <<fs, env>>

SliceAfterSlicer ==
  /\ last.pc = "slicing"
  /\ calls[SlicerCall].pc = "returned"
  /\ last' = [op |-> "slice_model", arg |-> last.arg]
               @@ slice_model_after_slicer(fs, last.arg, calls[SlicerCall].result)
  /\ UNCHANGED <<fs, env, calls>>

\* the running program writes its output file: OpenSCAD model.stl, the
\* slicer model.gcode
ProcessWrites(i) ==
  LET out == IF i = StlCall THEN StlPath(last.arg) ELSE GcodePath(last.arg)
  IN /\ calls[i].proc = "running"
     /\ fs' = Put(fs, out.comps, FileNode(<<97>>))
     /\ UNCHANGED <<last, env, calls>>

NextSlice ==
  \/ \E model_id \in SliceModelIds, exec \in ExecOutcomes : SliceModel(model_id, exec)
  \/ \E exec \in ExecOutcomes : SliceAfterStl(exec)
  \/ SliceAfterSlicer
  \/ \E i \in {StlCall, SlicerCall} : ProcessWrites(i)
  \/ \E i \in {StlCall, SlicerCall}, code \in {0, 1} : ProcessExit(i, <<97>>, <<>>, code)
  \/ \E i \in {StlCall, SlicerCall} : ProcessDies(i)
  \/ \E i \in {StlCall, SlicerCall} : Complete(i)
  \/ \E i \in {StlCall, SlicerCall} : Timeout(i)
  \/ \E i \in {StlCall, SlicerCall} : ReturnTimeout(i)

SpecSlice == InitSlice /\ [][NextSlice]_vars

(***************************************************************************)
(* The claims.                                                             *)
(***************************************************************************)
FsOps ==
  {"read_file", "write_file", "list_directory", "create_directory", "delete_path",
   "get_path_info"}

\* the canonical form of a raw path: ~ expanded, "..", "." and links resolved
CanonicalForm(f, raw) == Resolve(f, ExpandUser(raw))

\* the canonical form is neither an allowed root nor below one
OutOfBounds(f, raw) ==
  \A root \in AllowedRoots(f) : ~IsPrefix(root, CanonicalForm(f, raw))

\* C1: a file operation on a raw path whose canonical form is neither an
\* allowed root (as the guard resolves the roots at the call) nor below one
\* answers "Access denied" and leaves the filesystem as it was.
C1_OutOfBoundsDenied ==
  [][(last'.op \in FsOps /\ OutOfBounds(fs, last'.path))
       => (last'.error = AccessDenied /\ ~last'.success /\ fs' = fs)]_vars

\* C1 witness: a delete through the link ws/d, which leads to /e, was refused
C1_Witness ==
  /\ last.op = "delete_path"
  /\ last.path = Raw("", <<"ws", "d", "a">>)
  /\ IsKind(fs, <<"c", "ws", "d">>, "link")
  /\ CanonicalForm(fs, last.path) = <<"e", "a">>
  /\ last.error = AccessDenied

Started(c) == c.via = "execute" /\ c.pc # "idle"

\* the first shell word of the command, its path prefix stripped, is blocked
FirstWordBlocked(command) ==
  LET parts == ShlexSplit(command)
  IN /\ parts # ShlexError
     /\ parts # <<>>
     /\ Basename(parts[1]) \in BLOCKED_COMMANDS

NoProcess(c) == c.spawned = 0 /\ c.proc = "none"

\* C2: execute_command of a command line whose first shell word, its path
\* prefix stripped, is in the block list answers "Command blocked" and starts
\* no process, whatever the working directory and the timeout.
C2_BlockedCommandRejected ==
  \A i \in CallIds :
    (Started(calls[i]) /\ FirstWordBlocked(calls[i].command))
      => /\ calls[i].pc = "returned"
         /\ calls[i].resp.error = "Command blocked"
         /\ NoProcess(calls[i])

\* C2 witness: /bin/su asked for in ../e was refused as blocked
C2_Witness ==
  \E i \in CallIds :
    /\ Started(calls[i])
    /\ calls[i].command = CmdPathSu
    /\ calls[i].working_dir = <<Raw("", <<"..", "e">>)>>
    /\ calls[i].resp.error = "Command blocked"

ShellOperators == {<<"|">>, <<"&", "&">>, <<";">>}

\* a pipe, && or ; is followed, directly or after one blank, by a blocked name
ChainsIntoBlocked(command) ==
  \E op \in ShellOperators, name \in BLOCKED_COMMANDS :
    Contains(command, op \o name) \/ Contains(command, op \o <<" ">> \o name)

\* C3: execute_command of a command line in which a pipe, && or ; is
\* followed by a blocked executable name answers "Command blocked" and
\* starts no process.
C3_ChainedCommandRejected ==
  \A i \in CallIds :
    (Started(calls[i]) /\ ChainsIntoBlocked(calls[i].command))
      => /\ calls[i].pc = "returned"
         /\ calls[i].resp.error = "Command blocked"
         /\ NoProcess(calls[i])

\* C4: once the deadline has passed the process is killed, and where a
\* timeout result has been returned the process of the invocation is gone.
C4_TimeoutProcessGone ==
  \A i \in CallIds :
    /\ calls[i].pc = "wait" => calls[i].proc \in {"killed", "exited"}
    /\ (calls[i].pc = "returned" /\ calls[i].result.error = "timeout")
         => calls[i].proc = "exited"

\* C4 witness: a timeout result was returned for a process that was killed
C4_Witness ==
  \E i \in CallIds :
    /\ calls[i].pc = "returned"
    /\ calls[i].result.error = "timeout"
    /\ calls[i].spawned = 1
    /\ calls[i].proc = "exited"
    /\ calls[i].code = -9

\* C5: execute_command of a command that passes the command guard, with a
\* working directory whose canonical form is outside every allowed root,
\* answers "Access denied" and starts no process.
C5_WorkingDirOutsideDenied ==
  \A i \in CallIds :
    (/\ Started(calls[i])
     /\ IsCommandSafe(calls[i].command).safe
     /\ calls[i].working_dir # <<>>
     /\ OutOfBounds(fs, calls[i].working_dir[1]))
      => /\ calls[i].pc = "returned"
         /\ calls[i].resp.error = AccessDenied
         /\ NoProcess(calls[i])

\* C5 witness: echo hi asked for in ws/d, a link to /e, was refused
C5_Witness ==
  \E i \in CallIds :
    /\ Started(calls[i])
    /\ calls[i].command = CmdEcho
    /\ calls[i].working_dir = <<Raw("", <<"ws", "d">>)>>
    /\ CanonicalForm(fs, calls[i].working_dir[1]) = OutsideDir
    /\ calls[i].resp.error = AccessDenied

\* the canonical paths the guard is probed with
ProbePaths == {WorkspaceDir, Append(WorkspaceDir, "d"), HomeDir, OutsideDir, OutsideFile}

GuardAccepts(f, canonical) == \E root \in AllowedRoots(f) : IsPrefix(root, canonical)

\* C6: after any sequence of operations the guard accepts exactly the
\* canonical paths it accepted at startup.
C6_RootsImmutable ==
  \A p \in ProbePaths : GuardAccepts(fs, p) <=> GuardAccepts(FsBase, p)

\* C7: a read_file that directly follows a successful write_file of the same
\* path with the same encoding returns the written content.
C7_WriteReadRoundTrip ==
  [][(/\ last.op = "write_file"
      /\ last.success
      /\ last'.op = "read_file"
      /\ last'.path = last.path
      /\ last'.encoding = last.encoding)
       => (last'.error = "" /\ last'.content = last.arg)]_vars

\* the name holds the pattern, letter case ignored
HoldsIgnoringCase(name, pattern) ==
  \E at \in 0..(Len(name) - Len(pattern)) :
    \A k \in 1..Len(pattern) : UpperChar(name[at + k]) = UpperChar(pattern[k])

NamedSensitive(name) ==
  \E k \in 1..Len(sensitive_patterns) : HoldsIgnoringCase(name, sensitive_patterns[k])

ExitedNaturally(c) ==
  c.pc = "returned" /\ c.spawned = 1 /\ c.result.error # "timeout"

\* what the process wrote, as text
Captured(bytes) == Decode(bytes, "utf-8", "replace").text

\* a text cut to the ceiling
Cut(text) == IF Len(text) > MaxOutputLength THEN SubSeq(text, 1, MaxOutputLength) ELSE text

\* C9: when the process exits by itself, stdout and stderr of the result are
\* what the process wrote, cut to the ceiling when longer and unchanged
\* otherwise, and cutting the result again changes nothing.
C9_OutputCutToCeiling ==
  \A i \in CallIds :
    ExitedNaturally(calls[i])
      => /\ calls[i].result.stdout = Cut(Captured(calls[i].outb))
         /\ calls[i].result.stderr = Cut(Captured(calls[i].errb))
         /\ Cut(calls[i].result.stdout) = calls[i].result.stdout
         /\ Cut(calls[i].result.stderr) = calls[i].result.stderr

\* C10: in every result of a runner and in every response of execute_command
\* that is no error, success is true exactly when exit_code is 0; a process
\* started by execute_command that exits with a code other than 0 is
\* answered with that code and success false, not with an error.
C10_SuccessIffExitZero ==
  \A i \in CallIds :
    calls[i].pc = "returned"
      => /\ calls[i].result # NoResult
              => (calls[i].result.success <=> calls[i].result.exit_code = 0)
         /\ (calls[i].via = "execute" /\ calls[i].resp.error = "")
              => (calls[i].resp.success <=> calls[i].resp.exit_code = 0)
         /\ (calls[i].via = "execute" /\ ExitedNaturally(calls[i]) /\ calls[i].code # 0)
              => /\ calls[i].resp.error = ""
                 /\ calls[i].resp.exit_code = calls[i].code
                 /\ ~calls[i].resp.success

\* C10 witness: a process started by execute_command exited with code 1
C10_Witness ==
  \E i \in CallIds :
    /\ calls[i].via = "execute"
    /\ ExitedNaturally(calls[i])
    /\ calls[i].code = 1
    /\ calls[i].resp.exit_code = 1
    /\ ~calls[i].resp.success

\* C13: the return that follows a timeout carries none of the output
\* collected so far: stdout is empty, stderr is the timeout message,
\* exit_code is -1, success is false and the failure kind is "timeout".
C13_TimeoutDiscardsOutput ==
  [][\A i \in DOMAIN calls :
       (calls[i].pc = "wait" /\ calls'[i].pc = "returned")
         => /\ calls'[i].result.stdout = <<>>
            /\ calls'[i].result.stderr = <<"Command timed out">>
            /\ calls'[i].result.exit_code = -1
            /\ ~calls'[i].result.success
            /\ calls'[i].result.error = "timeout"]_vars

\* C13 witness: a timeout result was returned although the process had
\* written output before the deadline passed
C13_Witness ==
  \E i \in DOMAIN calls :
    /\ calls[i].pc = "returned"
    /\ calls[i].result.error = "timeout"
    /\ calls[i].outb # <<>>
    /\ calls[i].result.stdout = <<>>

\* the entries at or below a canonical path
Below(f, canonical) == {p \in DOMAIN f : IsPrefix(canonical, p)}

\* the filesystem without the given entries
Without(f, gone) == [p \in DOMAIN f \ gone |-> f[p]]

C15_CreateDirectoryIdempotent ==
  [][(last'.op = "create_directory" /\ ~OutOfBounds(fs, last'.path))
       => LET target == CanonicalForm(fs, last'.path)
          IN /\ IsKind(fs, target, "dir") => (last'.success /\ fs' = fs)
             /\ IsKind(fs, target, "file")
                  => (last'.error # "" /\ ~last'.success /\ fs' = fs)
             /\ (/\ last.op = "create_directory"
                 /\ last.success
                 /\ last.path = last'.path
                 /\ last.flag = last'.flag)
                  => (last'.success /\ last'.resolved = last.resolved /\ fs' = fs)]_vars

\* C15 witness: create_directory of ws/d succeeded where ws/d was a
\* directory before the call (it holds a, which the call does not make)
C15_Witness ==
  /\ last.op = "create_directory"
  /\ last.path = Raw("", <<"ws", "d">>)
  /\ last.success
  /\ IsKind(fs, <<"c", "ws", "d">>, "dir")
  /\ Exists(fs, <<"c", "ws", "d", "a">>)

\* C16: the size a successful write_file answers is the size that read_file
\* and get_path_info report for the same path directly afterwards.
C16_WriteSizeIsFileSize ==
  [][(/\ last.op = "write_file"
      /\ last.success
      /\ last'.op \in {"read_file", "get_path_info"}
      /\ last'.path = last.path
      /\ last'.error = "")
       => last'.size = last.size]_vars

\* the command line holds nothing but blanks
OnlyWhitespace(command) == \A k \in 1..Len(command) : command[k] \in Whitespace

\* C17: execute_command of a command line that is empty, holds only blanks
\* or cannot be split into shell words answers "Command blocked" and starts
\* no process.
C17_EmptyOrMalformedBlocked ==
  \A i \in DOMAIN calls :
    (Started(calls[i])
       /\ (OnlyWhitespace(calls[i].command) \/ ShlexSplit(calls[i].command) = ShlexError))
      => /\ calls[i].pc = "returned"
         /\ calls[i].resp.error = "Command blocked"
         /\ NoProcess(calls[i])

\* C17 witness: a command line with an unbalanced quote was refused
C17_Witness ==
  \E i \in DOMAIN calls :
    /\ Started(calls[i])
    /\ calls[i].command = CmdUnbalanced
    /\ calls[i].resp.error = "Command blocked"
    /\ calls[i].resp.details = "Failed to parse command"

\* the text is one or more ASCII letters, digits, hyphens and underscores
ValidModelId(text) == text # <<>> /\ \A k \in 1..Len(text) : text[k] \in IdChars

\* C19: sanitize_model_id returns an argument of one or more ASCII letters,
\* digits, hyphens and underscores unchanged and raises ValueError for every
\* other text; what get_model_dir returns is a direct child of the models
\* directory.
C19_SanitizeModelId ==
  /\ last.op = "sanitize_model_id"
       => IF ValidModelId(last.arg)
          THEN last.error = "" /\ last.content = last.arg
          ELSE last.error = "ValueError"
  /\ (last.op = "get_model_dir" /\ last.error = "")
       => /\ last.resolved = models_dir
          /\ Len(last.content) = 1
          /\ last.content[1] # <<".", ".">>

\* the invocation of execute_command returned without a process of its own
\* having run to its end: a guard refused, the process could not be
\* started, it was killed at the deadline or its output could not be read
ExecuteFailed(c) ==
  /\ c.via = "execute"
  /\ c.pc = "returned"
  /\ (c.spawned = 0 \/ c.result.error # "")

\* C12: every failure of execute_command (guard rejection, bad working
\* directory, timeout, missing executable, OS error) is answered with an
\* object that holds an error and a details text.
C12_FailuresInBand ==
  \A i \in DOMAIN calls :
    ExecuteFailed(calls[i])
      => (calls[i].resp.error # "" /\ calls[i].resp.details # "")

\* the runner of the invocation returned a failure
RunnerFailed(c) == c.via = "execute" /\ c.pc = "returned" /\ c.result.error # ""

\* what a caller of execute_command reads in a response, stderr left aside
WithoutStderr(resp) ==
  [error |-> resp.error, details |-> resp.details, success |-> resp.success,
   exit_code |-> resp.exit_code, stdout |-> resp.stdout,
   working_dir |-> resp.working_dir]

\* C11: two invocations of execute_command whose runners failed in
\* different ways (timeout, executable not found, other OS error) are
\* answered with responses that differ in something other than stderr.
C11_FailureKindInResponse ==
  \A i \in DOMAIN calls, j \in DOMAIN calls :
    (/\ RunnerFailed(calls[i])
     /\ RunnerFailed(calls[j])
     /\ calls[i].result.error # calls[j].result.error)
      => WithoutStderr(calls[i].resp) # WithoutStderr(calls[j].resp)

\* C20: a step of one invocation leaves every other invocation as it was
\* (a timeout kills the process of its own invocation only and sets its own
\* result only), and an invocation that awaits its process keeps no other
\* from starting or from completing.
C20_InvocationsIndependent ==
  /\ [][\A i \in DOMAIN calls :
          calls'[i] # calls[i]
            => \A j \in DOMAIN calls \ {i} : calls'[j] = calls[j]]_vars
  /\ [](\A i \in DOMAIN calls : \A j \in DOMAIN calls \ {i} :
          calls[i].pc \in {"communicate", "wait"}
            => /\ Free(j) => ENABLED ExecuteCommand(j, CmdEcho, <<>>, <<>>, "")
               /\ (calls[j].pc = "communicate" /\ calls[j].proc = "exited")
                    => ENABLED Complete(j))

\* C20 witness: the first invocation returned a timeout and its process was
\* killed, while the process of the second is still running
C20_Witness ==
  /\ calls[1].pc = "returned"
  /\ calls[1].result.error = "timeout"
  /\ calls[1].code = -9
  /\ calls[2].pc = "communicate"
  /\ calls[2].proc = "running"

C27_FailedWriteLeavesFs ==
  [][(last'.op = "write_file" /\ last'.error # "") => fs' = fs]_vars

(***************************************************************************)
(* C24: a runner reports 'command_not_found' only when the executable      *)
(* cannot be found: an invocation whose result carries that kind had a     *)
(* working directory that exists and is a directory.                       *)
(***************************************************************************)
C24_NotFoundMeansExecutable ==
  \A i \in CallIds :
    calls[i].result.error = "command_not_found" => PathIsDir(fs, calls[i].cwd)

(***************************************************************************)
(* C22: an invocation of a runner goes from its start to a running process *)
(* (or to a failed start), from there to exactly one of completion,        *)
(* timeout or crash, and from there to its result; it has no result before *)
(* it returns, starts at most one process and never starts another.        *)
(***************************************************************************)
C22_InvocationLifecycle ==
  [][\A i \in CallIds :
       LET c == calls[i]
           d == calls'[i]
       IN /\ d.spawned \in {0, 1}
          /\ c.pc # "returned" => c.result = NoResult
          /\ (c.pc \in {"idle", "returned"} /\ d # c)
               => \/ d.pc = "communicate" /\ d.proc = "running" /\ d.spawned = 1
                  \/ d.pc = "returned" /\ d.proc = "none" /\ d.spawned = 0
          /\ (c.pc = "communicate" /\ d # c)
               => /\ c.spawned = 1 /\ d.spawned = 1
                  /\ \/ d.pc = "communicate" /\ c.proc = "running" /\ d.proc = "exited"
                     \/ /\ d.pc = "returned"
                        /\ d.proc = "exited"
                        /\ d.result = NaturalResult(c.via, c.outb, c.errb, c.code)
                     \/ d.pc = "wait" /\ d.proc # "running"
          /\ (c.pc = "wait" /\ d # c)
               => /\ c.spawned = 1 /\ d.spawned = 1
                  /\ \/ d.pc = "wait" /\ c.proc = "killed" /\ d.proc = "exited"
                     \/ d.pc = "returned" /\ d.proc = "exited" /\ d.result = TimeoutResult]_vars

\* C22 witness: run_command_safe returned the result of a process that
\* failed with exit code 1, having started that one process
C22_Witness ==
  \E i \in CallIds :
    /\ calls[i].via = "safe"
    /\ calls[i].pc = "returned"
    /\ calls[i].spawned = 1
    /\ calls[i].proc = "exited"
    /\ calls[i].code = 1
    /\ calls[i].result.exit_code = 1
    /\ ~calls[i].result.success

SameBehaviour(c, d) ==
  /\ c.cwd = d.cwd
  /\ c.spawned = 1 /\ d.spawned = 1
  /\ c.outb = d.outb /\ c.errb = d.errb /\ c.code = d.code
  /\ (c.result.error = "timeout") <=> (d.result.error = "timeout")

C28_RunnersEquivalent ==
  \A i \in DOMAIN calls : \A j \in DOMAIN calls :
    (/\ calls[i].pc = "returned" /\ calls[i].via = "safe"
     /\ calls[j].pc = "returned" /\ calls[j].via = "async"
     /\ SameBehaviour(calls[i], calls[j]))
      => calls[i].result = calls[j].result

(***************************************************************************)
(* C23: every invocation of execute_command that is in flight, awaiting    *)
(* the output of its process or the end of a killed process, eventually    *)
(* returns; an invocation that the guards reject or whose process cannot   *)
(* be started returns in the step that starts it.                          *)
(***************************************************************************)
C23_EveryInvocationReturns ==
  \A i \in CallIds :
    (calls[i].pc \in {"communicate", "wait"}) ~> (calls[i].pc = "returned")

\* C23 witness: execute_command answered the timeout of a process that
\* never exited by itself and went away on the kill
C23_Witness ==
  \E i \in CallIds :
    /\ calls[i].via = "execute"
    /\ calls[i].pc = "returned"
    /\ calls[i].outb = <<>>
    /\ calls[i].code = -9
    /\ calls[i].proc = "exited"
    /\ calls[i].resp.stderr = TimeoutResult.stderr
    /\ calls[i].resp.exit_code = -1

(***************************************************************************)
(* C25: every entry that list_directory returns describes an object inside *)
(* an allowed root: its absolute_path, the object its type and size are    *)
(* read from, is an allowed root or below one.                             *)
(***************************************************************************)
C25_EntriesInsideRoots ==
  (last.op = "list_directory" /\ last.error = "")
    => \A entry \in last.entries : GuardAccepts(fs, entry.absolute_path)

(***************************************************************************)
(* C26: with show_hidden false no entry of a listing has a hidden name     *)
(* and, in recursive mode, none lies beneath a directory with a hidden     *)
(* name; count is the number of entries returned.                          *)
(***************************************************************************)
C26_HiddenEntriesLeftOut ==
  (last.op = "list_directory" /\ last.error = "")
    => /\ last.count = Cardinality(last.entries)
       /\ ~last.flag2
            => \A entry \in last.entries :
                 \A k \in 1..Len(entry.path) : ~HiddenName(entry.path[k])

(***************************************************************************)
(* C21: whatever a running process does to the filesystem between the      *)
(* guard of a file operation and its primitives, every object that the     *)
(* primitives create, change or remove lies, at that moment, under an      *)
(* allowed root.                                                           *)
(***************************************************************************)
Touched(f, g) ==
  {p \in DOMAIN f \cup DOMAIN g : p \notin DOMAIN f \/ p \notin DOMAIN g \/ f[p] # g[p]}

C21_GuardHoldsAtPrimitive ==
  [][(last.pc = "guarded" /\ last'.pc = "done")
       => \A p \in Touched(fs, fs') : GuardAccepts(fs, p)]_vars

(***************************************************************************)
(* C30: slice_model starts the slicer only when the STL generation of the  *)
(* same call has returned with exit code 0 and model.stl exists; it        *)
(* returns gcode_path only when the slicer of the call has returned with   *)
(* exit code 0; when the first step fails the slicer is never started and  *)
(* the call returns an error.                                              *)
(***************************************************************************)
ExitedZero(c) ==
  c.pc = "returned" /\ c.proc = "exited" /\ c.result.success /\ c.result.exit_code = 0

C30_SliceStepsGated ==
  [][/\ (calls[SlicerCall].pc = "idle" /\ calls'[SlicerCall].pc # "idle")
          => /\ last.pc = "stl"
             /\ ExitedZero(calls[StlCall])
             /\ PathExists(fs, StlPath(last.arg))
     /\ last'.pc = "stl" => calls'[SlicerCall] = IdleCall
     /\ (last'.op = "slice_model" /\ last'.pc = "done" /\ last'.error = "")
          => /\ ExitedZero(calls'[StlCall])
             /\ ExitedZero(calls'[SlicerCall])
             /\ last'.resolved = GcodePath(last'.arg).comps
     /\ (last.pc = "stl" /\ last'.pc = "done")
          => /\ last'.error \in {"STL generation failed", "STL file not generated"}
             /\ calls'[SlicerCall] = IdleCall
     /\ (last.pc = "slicing" /\ last'.pc = "done" /\ ~ExitedZero(calls[SlicerCall]))
          => last'.error = "Slicing failed"]_vars

\* C30 witness: a call returned gcode_path after both programs had exited
\* with code 0
C30_Witness ==
  /\ last.op = "slice_model"
  /\ last.pc = "done"
  /\ last.error = ""
  /\ last.resolved = Append(Append(models_dir, "a"), "model.gcode")
  /\ ExitedZero(calls[StlCall])
  /\ ExitedZero(calls[SlicerCall])
  /\ PathExists(fs, GcodePath(<<"a">>))

====
